---- MODULE Spec2Model ----
(***************************************************************************)
(* Retrieval tools of the two MCP servers of this repository:              *)
(*   main.py        search / fetch over an OpenAI vector store with a      *)
(*                  local keyword fallback over sample_data.json           *)
(*   main_azure.py  search / hybrid_search over Azure AI Search            *)
(* A Python str is a sequence of one-character strings; None is the        *)
(* distinguished value None below.  Every tool invocation is one action;   *)
(* the answers of the external services are chosen by the environment.     *)
(***************************************************************************)
EXTENDS Integers, Sequences, FiniteSets, TLC

VARIABLES program, openai_client, loaded, RECORDS, LOOKUP,
          az_openai_client, search_client,
          op, backend, outcome, trace, sources

vars == <<program, openai_client, loaded, RECORDS, LOOKUP,
          az_openai_client, search_client,
          op, backend, outcome, trace, sources>>

(***************************************************************************)
(* Bounds of the model                                                     *)
(***************************************************************************)
MaxRecords == 2
MaxIdRecords == 7
MaxHits == 2
TopBelow == 2
MaxTop == 22

(***************************************************************************)
(* Program constants                                                       *)
(***************************************************************************)
SnippetLimit == 200
AvailableIdsLimit == 5
TopLowerLimit == 1
TopUpperLimit == 20

(***************************************************************************)
(* Python values and str methods                                           *)
(***************************************************************************)
None == <<"None">>

Rep(c, n) == [i \in 1..n |-> c]

Min(a, b) == IF a < b THEN a ELSE b

Max(a, b) == IF a > b THEN a ELSE b

IsSpace(c) == c \in {" ", "\t", "\n"}

LowerChar(c) ==
  CASE c = "A" -> "a" [] c = "C" -> "c" [] c = "D" -> "d"
    [] c = "N" -> "n" [] c = "T" -> "t" [] OTHER -> c

Lower(s) == [i \in 1..Len(s) |-> LowerChar(s[i])]

\* s[:n]
Slice(s, n) == SubSeq(s, 1, Min(n, Len(s)))

RECURSIVE LStrip(_)
LStrip(s) == IF s # <<>> /\ IsSpace(Head(s)) THEN LStrip(Tail(s)) ELSE s

RECURSIVE RStrip(_)
RStrip(s) ==
  IF s # <<>> /\ IsSpace(s[Len(s)]) THEN RStrip(SubSeq(s, 1, Len(s) - 1)) ELSE s

Strip(s) == RStrip(LStrip(s))

\* s.split(): the maximal runs of non-whitespace characters, in order
RECURSIVE SplitFrom(_, _, _)
SplitFrom(s, cur, acc) ==
  IF s = <<>> THEN (IF cur = <<>> THEN acc ELSE Append(acc, cur))
  ELSE IF IsSpace(Head(s))
       THEN SplitFrom(Tail(s), <<>>, IF cur = <<>> THEN acc ELSE Append(acc, cur))
       ELSE SplitFrom(Tail(s), Append(cur, Head(s)), acc)

Split(s) == SplitFrom(s, <<>>, <<>>)

\* t in s
Contains(t, s) ==
  \E i \in 0..(Len(s) - Len(t)) : SubSeq(s, i + 1, i + Len(t)) = t

StartsWith(s, p) == Len(s) >= Len(p) /\ SubSeq(s, 1, Len(p)) = p

\* sep.join(parts); raises TypeError when an item is not a str
RECURSIVE Join(_, _)
Join(parts, sep) ==
  IF parts = <<>> THEN <<>>
  ELSE IF Len(parts) = 1 THEN parts[1]
  ELSE parts[1] \o sep \o Join(Tail(parts), sep)

JoinRaises(parts) == \E i \in 1..Len(parts) : parts[i] = None

Digit(d) ==
  CASE d = 0 -> "0" [] d = 1 -> "1" [] d = 2 -> "2" [] d = 3 -> "3"
    [] d = 4 -> "4" [] d = 5 -> "5" [] d = 6 -> "6" [] d = 7 -> "7"
    [] d = 8 -> "8" [] OTHER -> "9"

\* str(n) of a non-negative int
RECURSIVE IntStr(_)
IntStr(n) == IF n < 10 THEN <<Digit(n)>> ELSE IntStr(n \div 10) \o <<Digit(n % 10)>>

\* str(v) of a JSON scalar held in a metadata mapping
Str(v) ==
  CASE v.t = "str" -> v.s
    [] v.t = "int" -> IntStr(v.n)
    [] OTHER -> <<"N", "o", "n", "e">>

\* truthiness of a str-or-None value
Truthy(v) == v # None /\ v # <<>>

\* d.get(k, default) on a record standing for a dict
Get(d, k, default) == IF k \in DOMAIN d THEN d[k] ELSE default

\* a truthy object that is not a str: len() of it raises TypeError
Number == <<"<number>">>

(***************************************************************************)
(* What an invocation leaves behind: the value returned or the exception   *)
(* raised, the outbound calls made and, per search result, the text the    *)
(* snippet was cut from.                                                   *)
(***************************************************************************)
NoDoc == [id |-> <<>>]

Return(results) ==
  [kind |-> "return", results |-> results, doc |-> NoDoc, error |-> "", ids |-> <<>>]

ReturnDoc(doc) ==
  [kind |-> "return", results |-> <<>>, doc |-> doc, error |-> "", ids |-> <<>>]

Raise(error, ids) ==
  [kind |-> "raise", results |-> <<>>, doc |-> NoDoc, error |-> error, ids |-> ids]

Exit(o, t, s) == [outcome |-> o, trace |-> t, sources |-> s]

(***************************************************************************)
(* main.py: the document store                                             *)
(***************************************************************************)
\* a Python dict: its items in insertion order, keys unique
Keys(d) == [i \in 1..Len(d) |-> d[i].k]

HasKey(d, k) == \E i \in 1..Len(d) : d[i].k = k

DictGet(d, k) == d[CHOOSE i \in 1..Len(d) : d[i].k = k].v

\* DictPut that keeps the value a present key already has
DictPutFirst(d, k, v) ==
  IF HasKey(d, k) THEN d ELSE Append(d, [k |-> k, v |-> v])

\* d[k] = v: a present key keeps its position, a new key goes last
DictPut(d, k, v) ==
  IF HasKey(d, k)
  THEN [i \in 1..Len(d) |-> IF d[i].k = k THEN [k |-> k, v |-> v] ELSE d[i]]
  ELSE Append(d, [k |-> k, v |-> v])

\* {record["id"]: record for record in RECORDS}
RECURSIVE LookupOf(_, _)
LookupOf(records, d) ==
  IF records = <<>> THEN d
  ELSE LookupOf(Tail(records), DictPut(d, Head(records).id, Head(records)))

\* load_sample_data whose except branch does not reset RECORDS
load_sample_data_no_reset(file) ==
  IF file.kind = "missing" THEN [RECORDS |-> <<>>, LOOKUP |-> <<>>]
  ELSE IF file.kind = "unreadable" THEN [RECORDS |-> <<>>, LOOKUP |-> <<>>]
  ELSE IF \E i \in 1..Len(file.records) : "id" \notin DOMAIN file.records[i]
       THEN [RECORDS |-> file.records, LOOKUP |-> <<>>]
       ELSE [RECORDS |-> file.records, LOOKUP |-> LookupOf(file.records, <<>>)]

\* the (RECORDS, LOOKUP) pair load_sample_data leaves for a sample_data.json
load_sample_data(file) ==
  IF file.kind = "missing" THEN [RECORDS |-> <<>>, LOOKUP |-> <<>>]
  ELSE IF file.kind = "unreadable" THEN [RECORDS |-> <<>>, LOOKUP |-> <<>>]
  ELSE IF \E i \in 1..Len(file.records) : "id" \notin DOMAIN file.records[i]
       THEN [RECORDS |-> <<>>, LOOKUP |-> <<>>]
       ELSE [RECORDS |-> file.records, LOOKUP |-> LookupOf(file.records, <<>>)]

(***************************************************************************)
(* main.py: _fallback_local_search                                         *)
(***************************************************************************)
\* the str(v) of the metadata values, when metadata is a dict
MetadataStrs(record) ==
  IF "metadata" \in DOMAIN record /\ record.metadata.dict
  THEN [i \in 1..Len(record.metadata.items) |-> Str(record.metadata.items[i].v)]
  ELSE <<>>

searchable_fields(record) ==
  <<Get(record, "title", <<>>), Get(record, "text", <<>>),
    Get(record, "content", <<>>)>> \o MetadataStrs(record)

searchable_text(record) == Lower(Join(searchable_fields(record), <<" ">>))

\* AnyTokenMatches with all() in place of any()
AllTokensMatch(query_tokens, text) ==
  \A j \in 1..Len(query_tokens) : Contains(query_tokens[j], text)

\* any(token in searchable_text for token in query_tokens)
AnyTokenMatches(query_tokens, text) ==
  \E j \in 1..Len(query_tokens) : Contains(query_tokens[j], text)

DocumentTitle(id) == <<"D", "o", "c", "u", "m", "e", "n", "t", " ">> \o id

\* record.get("text", record.get("content", ""))
RecordText(record) == Get(record, "text", Get(record, "content", <<>>))

\* the "text" of a keyword result
FallbackSnippet(text) == Slice(text, SnippetLimit) \o <<".", ".", ".">>

FallbackResult(record) ==
  IF "url" \in DOMAIN record /\ Truthy(record.url)
  THEN [id |-> record.id, title |-> Get(record, "title", DocumentTitle(record.id)),
        text |-> FallbackSnippet(RecordText(record)), url |-> record.url]
  ELSE [id |-> record.id, title |-> Get(record, "title", DocumentTitle(record.id)),
        text |-> FallbackSnippet(RecordText(record))]

RECURSIVE MatchedRecords(_, _, _)
MatchedRecords(records, query_tokens, acc) ==
  IF records = <<>> THEN acc
  ELSE MatchedRecords(Tail(records), query_tokens,
         IF AnyTokenMatches(query_tokens, searchable_text(Head(records)))
         THEN Append(acc, Head(records)) ELSE acc)

_fallback_local_search(query) ==
  LET query_tokens == Split(Strip(Lower(query)))
      matched == MatchedRecords(RECORDS, query_tokens, <<>>)
  IN  IF query_tokens = <<>> THEN Exit(Return(<<>>), <<>>, <<>>)
      ELSE IF \E i \in 1..Len(RECORDS) : JoinRaises(searchable_fields(RECORDS[i]))
           THEN Exit(Raise("TypeError", <<>>), <<>>, <<>>)
           ELSE Exit(Return([i \in 1..Len(matched) |-> FallbackResult(matched[i])]),
                     <<>>,
                     [i \in 1..Len(matched) |-> RecordText(matched[i])])

(***************************************************************************)
(* main.py: search                                                         *)
(***************************************************************************)
\* an outbound call (or the hand-over to the keyword matcher) and its arguments
Call(name, text) ==
  [call |-> name, text |-> text, vector |-> 0, k |-> 0, top |-> 0, select |-> <<>>]

\* QueryIsBlank without the strip()
QueryIsEmpty(query) == query = <<>>

\* not query or not query.strip()
QueryIsBlank(query) == query = <<>> \/ Strip(query) = <<>>

NoContentAvailable ==
  <<"N", "o", " ", "c", "o", "n", "t", "e", "n", "t", " ",
    "a", "v", "a", "i", "l", "a", "b", "l", "e">>

\* text[:200] + "..." if len(text) > 200 else text
Snippet(text) ==
  IF Len(text) > SnippetLimit
  THEN Slice(text, SnippetLimit) \o <<".", ".", ".">>
  ELSE text

\* text of the first content item of a vector store hit, before the placeholder
FirstContentText(item) ==
  LET content_list == Get(item, "content", <<>>)
  IN  IF content_list # <<>>
      THEN IF content_list[1].kind = "object" THEN content_list[1].text
           ELSE IF content_list[1].kind = "dict"
                THEN Get(content_list[1], "text", <<>>)
                ELSE <<>>
      ELSE <<>>

text_content(item) ==
  IF ~Truthy(FirstContentText(item)) THEN NoContentAvailable
  ELSE FirstContentText(item)

\* i counts from 0, as enumerate does
VectorStoreResult(item, i) ==
  [id |-> Get(item, "file_id", <<"v", "s", "_">> \o IntStr(i)),
   title |-> Get(item, "filename", DocumentTitle(IntStr(i + 1))),
   text |-> Snippet(text_content(item))]

\* VectorStoreTry that treats a response without hits as a failure
VectorStoreTryEmptyFails(resp) ==
  IF resp.kind = "raise" THEN [raised |-> TRUE, results |-> <<>>, sources |-> <<>>]
  ELSE IF resp.kind = "nodata" THEN [raised |-> TRUE, results |-> <<>>, sources |-> <<>>]
  ELSE IF resp.data = <<>> \/ \E i \in 1..Len(resp.data) : text_content(resp.data[i]) = Number
       THEN [raised |-> TRUE, results |-> <<>>, sources |-> <<>>]
       ELSE [raised |-> FALSE,
             results |-> [i \in 1..Len(resp.data) |-> VectorStoreResult(resp.data[i], i - 1)],
             sources |-> [i \in 1..Len(resp.data) |-> text_content(resp.data[i])]]

\* the try block: the oracle call and the mapping of its response
VectorStoreTry(resp) ==
  IF resp.kind = "raise" THEN [raised |-> TRUE, results |-> <<>>, sources |-> <<>>]
  ELSE IF resp.kind = "nodata" THEN [raised |-> FALSE, results |-> <<>>, sources |-> <<>>]
  ELSE IF \E i \in 1..Len(resp.data) : text_content(resp.data[i]) = Number
       THEN [raised |-> TRUE, results |-> <<>>, sources |-> <<>>]
       ELSE [raised |-> FALSE,
             results |-> [i \in 1..Len(resp.data) |-> VectorStoreResult(resp.data[i], i - 1)],
             sources |-> [i \in 1..Len(resp.data) |-> text_content(resp.data[i])]]

\* return await _fallback_local_search(query), after the calls in before
CallFallback(query, before) ==
  LET f == _fallback_local_search(query)
  IN  Exit(f.outcome, before \o <<Call("_fallback_local_search", query)>>, f.sources)

\* SearchExcept that swallows the failure instead of falling back
SearchExceptEmpty(query) ==
  Exit(Return(<<>>), <<Call("vector_stores.search", query)>>, <<>>)

\* the except branch of search
SearchExcept(query) ==
  CallFallback(query, <<Call("vector_stores.search", query)>>)

\* SearchNoClient that still attempts the oracle call before falling back
SearchNoClientTry(query) ==
  CallFallback(query, <<Call("vector_stores.search", query)>>)

\* the branch taken when openai_client is None
SearchNoClient(query) == CallFallback(query, <<>>)

\* search that keeps the hits mapped before a failure in front of the
\* keyword results
search_mixing(query, resp) ==
  IF QueryIsBlank(query) THEN Exit(Return(<<>>), <<>>, <<>>)
  ELSE IF ~openai_client THEN SearchNoClient(query)
  ELSE LET t == VectorStoreTry(resp)
           f == SearchExcept(query)
           n == CHOOSE n \in 0..Len(resp.data) :
                  /\ \A i \in 1..n : text_content(resp.data[i]) # Number
                  /\ n < Len(resp.data) => text_content(resp.data[n + 1]) = Number
           mapped == [i \in 1..n |-> VectorStoreResult(resp.data[i], i - 1)]
       IN  IF t.raised
           THEN IF f.outcome.kind = "return"
                THEN Exit(Return(mapped \o f.outcome.results), f.trace, f.sources)
                ELSE f
           ELSE Exit(Return(t.results), <<Call("vector_stores.search", query)>>,
                     t.sources)

search(query, resp) ==
  IF QueryIsBlank(query) THEN Exit(Return(<<>>), <<>>, <<>>)
  ELSE IF ~openai_client THEN SearchNoClient(query)
  ELSE LET t == VectorStoreTry(resp)
       IN  IF t.raised THEN SearchExcept(query)
           ELSE Exit(Return(t.results), <<Call("vector_stores.search", query)>>,
                     t.sources)

(***************************************************************************)
(* main.py: fetch                                                          *)
(***************************************************************************)
FilePrefix == <<"f", "i", "l", "e", "-">>

\* the text of every content item that has one
RECURSIVE content_parts(_)
content_parts(data) ==
  IF data = <<>> THEN <<>>
  ELSE IF "text" \in DOMAIN Head(data)
       THEN <<Head(data).text>> \o content_parts(Tail(data))
       ELSE content_parts(Tail(data))

\* file_content of the oracle path
FileContent(resp) ==
  IF resp.data # <<>> THEN Join(content_parts(resp.data), <<"\n">>)
  ELSE NoContentAvailable

\* the try block of fetch: content, then retrieve, then the projection
VectorStoreFetch(id, resp) ==
  IF resp.content = "raise"
  THEN [raised |-> TRUE, doc |-> NoDoc,
        calls |-> <<Call("vector_stores.files.content", id)>>]
  ELSE IF resp.retrieve = "raise"
  THEN [raised |-> TRUE, doc |-> NoDoc,
        calls |-> <<Call("vector_stores.files.content", id),
                    Call("vector_stores.files.retrieve", id)>>]
  ELSE [raised |-> FALSE,
        doc |-> IF resp.attributes # <<>>
                THEN [id |-> id, title |-> DocumentTitle(id),
                      text |-> FileContent(resp), metadata |-> resp.attributes]
                ELSE [id |-> id, title |-> DocumentTitle(id),
                      text |-> FileContent(resp)],
        calls |-> <<Call("vector_stores.files.content", id),
                    Call("vector_stores.files.retrieve", id)>>]

\* available_ids without the [:5]
available_ids_all == Keys(LOOKUP)

\* list(LOOKUP.keys())[:5]
available_ids == Slice(Keys(LOOKUP), AvailableIdsLimit)

LocalDocument(document) ==
  [id |-> document.id,
   title |-> Get(document, "title", DocumentTitle(document.id)),
   text |-> RecordText(document)]
  @@ (IF "url" \in DOMAIN document /\ Truthy(document.url)
      THEN [url |-> document.url] ELSE <<>>)
  @@ (IF "metadata" \in DOMAIN document /\ document.metadata.dict
         /\ document.metadata.items # <<>>
      THEN [metadata |-> document.metadata.items] ELSE <<>>)

\* the local lookup that ends fetch; calls are the oracle calls made before it
LocalFetch(id, calls) ==
  IF ~HasKey(LOOKUP, id)
  THEN Exit(Raise("ValueError: not found", available_ids),
            calls \o <<Call("LOOKUP", id)>>, <<>>)
  ELSE Exit(ReturnDoc(LocalDocument(DictGet(LOOKUP, id))),
            calls \o <<Call("LOOKUP", id)>>, <<>>)

\* FetchExcept that lets the oracle's exception reach the caller
FetchExceptRaise(id, calls) == Exit(Raise("vector store error", <<>>), calls, <<>>)

\* the except branch of fetch: log, then fall through to the local lookup
FetchExcept(id, calls) == LocalFetch(id, calls)

\* IdIsMissing that lets every id through
IdIsMissingNever(id) == FALSE

\* not id
IdIsMissing(id) == id = <<>>

\* UseVectorStore without the prefix test
UseVectorStoreAlways(id) == openai_client

\* id.startswith("file-") and openai_client
UseVectorStore(id) == StartsWith(id, FilePrefix) /\ openai_client

fetch(id, resp) ==
  IF IdIsMissing(id)
  THEN Exit(Raise("ValueError: Document ID is required", <<>>), <<>>, <<>>)
  ELSE IF UseVectorStore(id)
       THEN LET t == VectorStoreFetch(id, resp)
            IN  IF t.raised THEN FetchExcept(id, t.calls)
                ELSE Exit(ReturnDoc(t.doc), t.calls, <<>>)
       ELSE LocalFetch(id, <<>>)

(***************************************************************************)
(* main_azure.py: search and hybrid_search                                 *)
(***************************************************************************)
JInt(n) == [t |-> "int", s |-> <<>>, n |-> n]

JStr(s) == [t |-> "str", s |-> s, n |-> 0]

JNull == [t |-> "null", s |-> <<>>, n |-> 0]

\* ClampTop without the lower limit
ClampTopUpperOnly(top) == Min(top, TopUpperLimit)

\* min(max(1, top), 20)
ClampTop(top) == Min(Max(TopLowerLimit, top), TopUpperLimit)

SearchSelect == <<"id", "title", "text", "url", "category", "author", "date">>

HybridSelect ==
  <<"id", "title", "text", "content", "url", "category", "author", "date">>

EmbeddingCall(query) == Call("embeddings.create", query)

\* search_client.search(search_text, [VectorizedQuery(vector, k)], select, top)
IndexCall(search_text, vector, k, top, select) ==
  [call |-> "search_client.search", text |-> search_text, vector |-> vector,
   k |-> k, top |-> top, select |-> select]

IndexResult(item) ==
  [id |-> Get(item, "id", None),
   title |-> Get(item, "title", None),
   text |-> Snippet(Get(item, "text", <<>>)),
   url |-> Get(item, "url", None),
   score |-> Get(item, "score", JInt(0)),
   category |-> Get(item, "category", None),
   author |-> Get(item, "author", None),
   date |-> Get(item, "date", None)]

\* SearchError that logs the exception and returns an empty result set
SearchErrorSwallowed(error, calls) == Exit(Return(<<>>), calls, <<>>)

\* except Exception as e: logger.error(...); raise
SearchError(error, calls) == Exit(Raise(error, <<>>), calls, <<>>)

\* the try block shared by search and hybrid_search
IndexSearch(query, search_text, top, select, emb, idx) ==
  IF emb.kind = "raise"
  THEN SearchError("embedding error", <<EmbeddingCall(query)>>)
  ELSE LET calls == <<EmbeddingCall(query),
                      IndexCall(search_text, emb.vector, top, top, select)>>
       IN  IF idx.kind = "raise" THEN SearchError("index error", calls)
           ELSE IF \E i \in 1..Len(idx.hits) : Get(idx.hits[i], "text", <<>>) = None
                THEN SearchError("TypeError", calls)
                ELSE Exit(Return([i \in 1..Len(idx.hits) |-> IndexResult(idx.hits[i])]),
                          calls,
                          [i \in 1..Len(idx.hits) |-> Get(idx.hits[i], "text", <<>>)])

\* the branch taken when a client is None
ClientsMissing ==
  Exit(Raise("ValueError: Azure OpenAI and Search clients are required", <<>>),
       <<>>, <<>>)

az_search(query, top, emb, idx) ==
  IF QueryIsBlank(query) THEN Exit(Return(<<>>), <<>>, <<>>)
  ELSE IF ~az_openai_client \/ ~search_client THEN ClientsMissing
  ELSE IndexSearch(query, None, ClampTop(top), SearchSelect, emb, idx)

\* HybridSearchText that sends the vector alone
HybridSearchTextNone(query) == None

\* search_text=query
HybridSearchText(query) == query

\* hybrid_search that leaves the query text out unless use_semantic is set
hybrid_search_semantic(query, top, use_semantic, emb, idx) ==
  IF QueryIsBlank(query) THEN Exit(Return(<<>>), <<>>, <<>>)
  ELSE IF ~az_openai_client \/ ~search_client THEN ClientsMissing
  ELSE IndexSearch(query, IF use_semantic THEN query ELSE None,
                   ClampTop(top), HybridSelect, emb, idx)

hybrid_search(query, top, use_semantic, emb, idx) ==
  IF QueryIsBlank(query) THEN Exit(Return(<<>>), <<>>, <<>>)
  ELSE IF ~az_openai_client \/ ~search_client THEN ClientsMissing
  ELSE IndexSearch(query, HybridSearchText(query), ClampTop(top), HybridSelect,
                   emb, idx)

(***************************************************************************)
(* main_azure.py: fetch                                                    *)
(***************************************************************************)
IndexDocument(document) ==
  [id |-> Get(document, "id", None),
   title |-> Get(document, "title", None),
   text |-> Get(document, "content", None),
   url |-> Get(document, "url", None),
   metadata |-> [category |-> Get(document, "category", None),
                 author |-> Get(document, "author", None),
                 date |-> Get(document, "date", None),
                 tags |-> Get(document, "tags", None)]]

\* except Exception as e: raise ValueError(f"Failed to fetch document ...")
FetchError(calls) ==
  Exit(Raise("ValueError: Failed to fetch document", <<>>), calls, <<>>)

az_fetch(id, resp) ==
  IF IdIsMissing(id)
  THEN Exit(Raise("ValueError: Document ID is required", <<>>), <<>>, <<>>)
  ELSE IF ~search_client
  THEN Exit(Raise("ValueError: Azure Search client is required", <<>>), <<>>, <<>>)
  ELSE LET calls == <<Call("search_client.get_document", id)>>
       IN  IF resp.kind = "raise" THEN FetchError(calls)
           ELSE IF resp.kind = "empty" THEN FetchError(calls)
           ELSE Exit(ReturnDoc(IndexDocument(resp.doc)), calls, <<>>)

(***************************************************************************)
(* Inputs: the contents of sample_data.json, the tool arguments and the    *)
(* answers of the external services                                        *)
(***************************************************************************)
SeqsUpTo(S, n) == UNION {[1..k -> S] : k \in 0..n}

\* the sequences of at most n distinct elements of S
DistinctSeqsUpTo(S, n) ==
  { q \in SeqsUpTo(S, n) : \A i, j \in 1..Len(q) : q[i] = q[j] => i = j }

s_a == <<"a">>

s_b == <<"b">>

s_c == <<"c">>

s_d == <<"d">>

s_e == <<"e">>

s_cat == <<"c", "a", "t">>

s_file1 == FilePrefix \o <<"1">>

s_file2 == FilePrefix \o <<"2">>

RecordUniverse ==
  { [id |-> s_a, title |-> <<"C", "a", "t">>, text |-> <<"n", "a", "p">>],
    [id |-> s_b, text |-> Rep("x", SnippetLimit + 1), url |-> <<"u">>],
    [id |-> s_a, content |-> <<"d", "o", "g">>, url |-> <<>>,
     metadata |-> [dict |-> TRUE,
                   items |-> <<[k |-> "year", v |-> JInt(7)],
                               [k |-> "author", v |-> JStr(<<"A", "l">>)],
                               [k |-> "tags", v |-> JNull]>>]],
    [id |-> s_c, title |-> s_a, text |-> s_b, content |-> <<"q">>,
     url |-> None, metadata |-> [dict |-> FALSE, items |-> <<>>]],
    [id |-> s_b, title |-> None, text |-> s_cat] }

\* a records list with a record that has no id
NoIdRecords == <<[id |-> s_a, text |-> s_cat], [title |-> s_cat]>>

IdPool == <<s_a, s_b, s_file1, s_c, s_d, s_e>>

\* n records whose ids run through IdPool cyclically from position start
IdFile(start, n) ==
  [j \in 1..n |-> [id |-> IdPool[((start + j - 2) % Len(IdPool)) + 1],
                   text |-> IntStr(j)]]

JsonFile(records) == [kind |-> "json", records |-> records]

Files ==
  { [kind |-> "missing", records |-> <<>>], [kind |-> "unreadable", records |-> <<>>] }
  \cup { JsonFile(r) : r \in SeqsUpTo(RecordUniverse, MaxRecords) }
  \cup { JsonFile(NoIdRecords) }
  \cup { JsonFile(IdFile(st, n)) : st \in 1..Len(IdPool), n \in 0..MaxIdRecords }

Queries ==
  { <<>>, <<" ">>, <<"\t", " ">>, s_cat, <<"C", "A", "T", " ", "d", "o", "g">>,
    <<"a", "b">>, <<" ", "x", " ">>, <<"7", " ", "a", "l">> }

AzureQueries == { <<>>, <<" ", "\n">>, s_cat, <<"a", " ", "b">> }

FetchIds == { <<>>, s_a, s_b, s_c, s_file1, s_file2, <<"z", "z">> }

TopInputs == ((0 - TopBelow)..MaxTop) \cup {999}

VectorStoreItems ==
  { [file_id |-> s_file1, filename |-> <<"f">>,
     content |-> <<[kind |-> "object", text |-> <<"h", "i">>]>>],
    [filename |-> <<"g">>, content |-> <<[kind |-> "dict"]>>],
    [content |-> <<[kind |-> "dict", text |-> Rep("y", SnippetLimit + 1)],
                   [kind |-> "object", text |-> <<"z">>]>>],
    [file_id |-> s_file2, content |-> <<[kind |-> "object", text |-> Number]>>] }

NoSearchResponse == [kind |-> "none", data |-> <<>>]

SearchResponses ==
  { [kind |-> "raise", data |-> <<>>], [kind |-> "nodata", data |-> <<>>] }
  \cup { [kind |-> "data", data |-> d] : d \in DistinctSeqsUpTo(VectorStoreItems, MaxHits) }

NoFetchResponse ==
  [content |-> "none", retrieve |-> "none", data |-> <<>>, attributes |-> <<>>]

FetchResponses ==
  { [content |-> "raise", retrieve |-> "none", data |-> <<>>, attributes |-> <<>>],
    [content |-> "ok", retrieve |-> "raise", data |-> <<>>, attributes |-> <<>>],
    [content |-> "ok", retrieve |-> "ok", data |-> <<>>, attributes |-> <<>>],
    [content |-> "ok", retrieve |-> "ok",
     data |-> <<[text |-> <<"p">>], [type |-> "image"], [text |-> <<"q">>]>>,
     attributes |-> <<[k |-> "author", v |-> JStr(<<"A", "l">>)]>>] }

NoEmbedding == [kind |-> "none", vector |-> 0]

Embeddings ==
  { [kind |-> "raise", vector |-> 0], [kind |-> "ok", vector |-> 1],
    [kind |-> "ok", vector |-> 2] }

IndexItems ==
  { [id |-> s_a, title |-> <<"T">>, text |-> <<"n", "a", "p">>, url |-> <<"u">>,
     score |-> JInt(2), category |-> s_c, author |-> <<"A", "l">>, date |-> s_d],
    [id |-> s_b, text |-> Rep("x", SnippetLimit + 1)],
    [id |-> s_c, title |-> None, text |-> None, score |-> JNull],
    [id |-> s_d, url |-> None] }

NoIndexResponse == [kind |-> "none", hits |-> <<>>]

IndexResponses ==
  { [kind |-> "raise", hits |-> <<>>] }
  \cup { [kind |-> "hits", hits |-> h] : h \in DistinctSeqsUpTo(IndexItems, MaxHits) }

AzureFetchIds == { <<>>, s_a, s_b }

IndexDocuments ==
  { [id |-> s_a, title |-> <<"T">>, text |-> <<"n", "a", "p">>,
     content |-> Rep("z", SnippetLimit + 1), url |-> <<"u">>, category |-> s_c,
     author |-> <<"A", "l">>, date |-> s_d, tags |-> <<"t">>],
    [id |-> s_b, text |-> <<"n", "a", "p">>, url |-> None] }

NoDocumentResponse == [kind |-> "none", doc |-> NoDoc]

DocumentResponses ==
  { [kind |-> "raise", doc |-> NoDoc], [kind |-> "empty", doc |-> NoDoc] }
  \cup { [kind |-> "document", doc |-> d] : d \in IndexDocuments }

NoFile == [kind |-> "none", records |-> <<>>]

NoBackend ==
  [search |-> NoSearchResponse, fetch |-> NoFetchResponse,
   emb |-> NoEmbedding, idx |-> NoIndexResponse,
   doc |-> NoDocumentResponse, file |-> NoFile]

Called(t, name) == \E i \in 1..Len(t) : t[i].call = name

Op(name, query, id, top, use_semantic) ==
  [name |-> name, query |-> query, id |-> id, top |-> top,
   use_semantic |-> use_semantic]

(***************************************************************************)
(* The two programs                                                        *)
(***************************************************************************)
Init ==
  /\ program \in {"main", "main_azure"}
  /\ openai_client \in (IF program = "main" THEN BOOLEAN ELSE {FALSE})
  /\ \E clients \in (IF program = "main_azure"
                     THEN {<<FALSE, FALSE>>, <<TRUE, FALSE>>, <<TRUE, TRUE>>}
                     ELSE {<<FALSE, FALSE>>}) :
       /\ az_openai_client = clients[1]
       /\ search_client = clients[2]
  /\ loaded = FALSE
  /\ RECORDS = <<>>
  /\ LOOKUP = <<>>
  /\ op = Op("none", <<>>, <<>>, 0, FALSE)
  /\ backend = NoBackend
  /\ outcome = Return(<<>>)
  /\ trace = <<>>
  /\ sources = <<>>

\* main(): load_sample_data() before the server is started
Load ==
  /\ program = "main"
  /\ ~loaded
  /\ \E file \in Files :
       /\ RECORDS' = load_sample_data(file).RECORDS
       /\ LOOKUP' = load_sample_data(file).LOOKUP
       /\ backend' = [NoBackend EXCEPT !.file = file]
  /\ loaded' = TRUE
  /\ op' = Op("load_sample_data", <<>>, <<>>, 0, FALSE)
  /\ outcome' = Return(<<>>)
  /\ trace' = <<>>
  /\ sources' = <<>>
  /\ UNCHANGED <<program, openai_client, az_openai_client, search_client>>

\* the server is waiting for the next tool call
Idle == op.name = "none"

Leave(e) ==
  /\ outcome' = e.outcome
  /\ trace' = e.trace
  /\ sources' = e.sources

Search ==
  /\ program = "main"
  /\ loaded
  /\ Idle
  /\ \E query \in Queries, resp \in SearchResponses :
       LET e == search(query, resp)
       IN  /\ Leave(e)
           /\ op' = Op("search", query, <<>>, 0, FALSE)
           /\ backend' = [NoBackend EXCEPT !.search =
                             IF Called(e.trace, "vector_stores.search")
                             THEN resp ELSE NoSearchResponse]
  /\ UNCHANGED <<program, openai_client, loaded, RECORDS, LOOKUP,
                 az_openai_client, search_client>>

Fetch ==
  /\ program = "main"
  /\ loaded
  /\ Idle
  /\ \E id \in FetchIds, resp \in FetchResponses :
       LET e == fetch(id, resp)
       IN  /\ Leave(e)
           /\ op' = Op("fetch", <<>>, id, 0, FALSE)
           /\ backend' = [NoBackend EXCEPT !.fetch =
                             IF Called(e.trace, "vector_stores.files.content")
                             THEN resp ELSE NoFetchResponse]
  /\ UNCHANGED <<program, openai_client, loaded, RECORDS, LOOKUP,
                 az_openai_client, search_client>>

\* what the embedding service and the index answered in the calls made;
\* the index returns at most the top hits it was asked for
Answers(e, emb, idx) ==
  /\ \A i \in 1..Len(e.trace) :
       e.trace[i].call = "search_client.search" =>
         (idx.kind = "hits" => Len(idx.hits) <= e.trace[i].top)
  /\ backend' = [NoBackend EXCEPT
                   !.emb = IF Called(e.trace, "embeddings.create")
                           THEN emb ELSE NoEmbedding,
                   !.idx = IF Called(e.trace, "search_client.search")
                           THEN idx ELSE NoIndexResponse]

AzureSearch ==
  /\ program = "main_azure"
  /\ Idle
  /\ \E query \in AzureQueries, top \in TopInputs,
        emb \in Embeddings, idx \in IndexResponses :
       LET e == az_search(query, top, emb, idx)
       IN  /\ Leave(e)
           /\ op' = Op("az_search", query, <<>>, top, FALSE)
           /\ Answers(e, emb, idx)
  /\ UNCHANGED <<program, openai_client, loaded, RECORDS, LOOKUP,
                 az_openai_client, search_client>>

HybridSearch ==
  /\ program = "main_azure"
  /\ Idle
  /\ \E query \in AzureQueries, top \in TopInputs, use_semantic \in BOOLEAN,
        emb \in Embeddings, idx \in IndexResponses :
       LET e == hybrid_search(query, top, use_semantic, emb, idx)
       IN  /\ Leave(e)
           /\ op' = Op("hybrid_search", query, <<>>, top, use_semantic)
           /\ Answers(e, emb, idx)
  /\ UNCHANGED <<program, openai_client, loaded, RECORDS, LOOKUP,
                 az_openai_client, search_client>>

AzureFetch ==
  /\ program = "main_azure"
  /\ Idle
  /\ \E id \in AzureFetchIds, resp \in DocumentResponses :
       LET e == az_fetch(id, resp)
       IN  /\ Leave(e)
           /\ op' = Op("az_fetch", <<>>, id, 0, FALSE)
           /\ backend' = [NoBackend EXCEPT !.doc =
                             IF Called(e.trace, "search_client.get_document")
                             THEN resp ELSE NoDocumentResponse]
  /\ UNCHANGED <<program, openai_client, loaded, RECORDS, LOOKUP,
                 az_openai_client, search_client>>

\* server.run: the response (or the error) goes to the client and the server
\* waits for the next call
Serve ==
  /\ ~Idle
  /\ op' = Op("none", <<>>, <<>>, 0, FALSE)
  /\ backend' = NoBackend
  /\ outcome' = Return(<<>>)
  /\ trace' = <<>>
  /\ sources' = <<>>
  /\ UNCHANGED <<program, openai_client, loaded, RECORDS, LOOKUP,
                 az_openai_client, search_client>>

Next ==
  Load \/ Search \/ Fetch \/ AzureSearch \/ HybridSearch \/ AzureFetch \/ Serve

Spec == Init /\ [][Next]_vars

(***************************************************************************)
(* Properties                                                              *)
(***************************************************************************)
NonBlank(q) == \E i \in 1..Len(q) : ~IsSpace(q[i])

IsSearchOp == op.name \in {"search", "az_search", "hybrid_search"}

IsAzureSearchOp == op.name \in {"az_search", "hybrid_search"}

\* C1: when the vector store call of main.py search fails on a non-blank
\* query, search ends exactly as _fallback_local_search ends for the same
\* store and query: the same result list, or the same exception.
C1_FallbackDeterminism ==
  (op.name = "search" /\ NonBlank(op.query) /\ backend.search.kind = "raise")
    => outcome = _fallback_local_search(op.query).outcome

C1_Witness ==
  /\ op.name = "search" /\ NonBlank(op.query)
  /\ backend.search.kind = "raise"
  /\ outcome.kind = "return" /\ outcome.results # <<>>

\* C2: with openai_client None, search on a non-blank query hands over to the
\* keyword fallback at once: the only step of the invocation is the fallback
\* and no vector store call is made.
C2_NoClientStraightToFallback ==
  (op.name = "search" /\ ~openai_client /\ NonBlank(op.query))
    => /\ ~Called(trace, "vector_stores.search")
       /\ trace = <<Call("_fallback_local_search", op.query)>>

C2_Witness ==
  /\ op.name = "search" /\ ~openai_client /\ NonBlank(op.query)
  /\ Called(trace, "_fallback_local_search")
  /\ outcome.kind = "return" /\ outcome.results # <<>>

\* C3: for a query that is empty or all whitespace, search of main.py and
\* search and hybrid_search of main_azure.py return {results: []} and make
\* no call at all (oracle, embedding, index or fallback), whatever clients
\* are configured.
C3_BlankQueryEmptyNoCall ==
  (IsSearchOp /\ ~NonBlank(op.query))
    => /\ outcome.kind = "return" /\ outcome.results = <<>>
       /\ trace = <<>>

C3_Witness ==
  /\ op.name = "hybrid_search" /\ op.query # <<>> /\ ~NonBlank(op.query)
  /\ az_openai_client /\ search_client
  /\ outcome.kind = "return" /\ outcome.results = <<>>

\* the snippet policy of the specification
SnippetPolicy(text) ==
  IF Len(text) <= 200 THEN text
  ELSE SubSeq(text, 1, 200) \o <<".", ".", ".">>

\* C4: in every result list returned by a search operation, the text of each
\* result is its source text unchanged when that has at most 200 characters
\* and its first 200 characters followed by "..." otherwise.
C4_UniformSnippetPolicy ==
  (IsSearchOp /\ outcome.kind = "return")
    => \A i \in 1..Len(outcome.results) :
         outcome.results[i].text = SnippetPolicy(sources[i])

\* the fields of a record the keyword matcher looks into
FieldsOf(record) ==
  { record[f] : f \in DOMAIN record \cap {"title", "text", "content"} }
  \cup (IF "metadata" \in DOMAIN record /\ record.metadata.dict
        THEN { Str(record.metadata.items[i].v) :
                 i \in 1..Len(record.metadata.items) }
        ELSE {})

TokenIn(token, record) ==
  \E f \in FieldsOf(record) : Contains(Lower(token), Lower(f))

SomeTokenIn(query, record) ==
  \E j \in 1..Len(Split(query)) : TokenIn(Split(query)[j], record)

Included == SelectSeq(RECORDS, LAMBDA r : SomeTokenIn(op.query, r))

\* C5: whenever the keyword search returns for a query with at least one
\* token, its results are, in store order, exactly the records in which some
\* lower-cased token occurs in the lower-cased title, text, content or string
\* form of a metadata value (the fields are joined by a blank, so a token
\* occurs in the joined text iff it occurs in one field).
C5_KeywordMatchIsOr ==
  (op.name = "search" /\ Called(trace, "_fallback_local_search")
     /\ NonBlank(op.query) /\ outcome.kind = "return")
    => /\ Len(outcome.results) = Len(Included)
       /\ \A i \in 1..Len(Included) :
            /\ outcome.results[i].id = Included[i].id
            /\ sources[i] = RecordText(Included[i])

C5_Witness ==
  /\ op.name = "search" /\ Called(trace, "_fallback_local_search")
  /\ Len(Split(op.query)) >= 2
  /\ outcome.kind = "return"
  /\ Len(outcome.results) = 1 /\ Len(RECORDS) = 2
  /\ \E j \in 1..Len(Split(op.query)) : ~TokenIn(Split(op.query)[j], RECORDS[1])
  /\ SomeTokenIn(op.query, RECORDS[1])

IsKey(id) == \E i \in 1..Len(LOOKUP) : LOOKUP[i].k = id

\* the oracle path of fetch was taken and both of its calls succeeded
OracleResolved ==
  /\ StartsWith(op.id, FilePrefix) /\ openai_client
  /\ backend.fetch.content = "ok" /\ backend.fetch.retrieve = "ok"

C7_NotFoundListsFirstFive ==
  (op.name = "fetch" /\ op.id # <<>> /\ ~OracleResolved /\ ~IsKey(op.id))
    => /\ outcome.kind = "raise"
       /\ outcome.error = "ValueError: not found"
       /\ Len(outcome.ids) <= 5
       /\ Len(outcome.ids) = (IF Len(LOOKUP) < 5 THEN Len(LOOKUP) ELSE 5)
       /\ \A i \in 1..Len(outcome.ids) : outcome.ids[i] = LOOKUP[i].k

C7_Witness ==
  /\ op.name = "fetch" /\ op.id = s_file2
  /\ backend.fetch.content = "raise"
  /\ Len(LOOKUP) > 5
  /\ outcome.kind = "raise" /\ Len(outcome.ids) = 5

\* C8: every invocation of main.py search ends by returning a result list,
\* for every query, store and oracle outcome.
C8_SearchNeverRaises ==
  op.name = "search" => outcome.kind = "return"

AzureFailure ==
  \/ ~az_openai_client
  \/ ~search_client
  \/ backend.emb.kind = "raise"
  \/ backend.idx.kind = "raise"

\* C9: in main_azure.py search and hybrid_search, on a non-blank query a
\* missing client, a failed embedding call or a failed index call ends the
\* invocation with an exception: no result list is returned and the keyword
\* fallback is not run.
C9_AzureFailureRaises ==
  (IsAzureSearchOp /\ NonBlank(op.query) /\ AzureFailure)
    => /\ outcome.kind = "raise"
       /\ outcome.results = <<>>
       /\ ~Called(trace, "_fallback_local_search")

C9_Witness ==
  /\ op.name = "hybrid_search" /\ NonBlank(op.query)
  /\ az_openai_client /\ search_client
  /\ backend.emb.kind = "ok" /\ backend.idx.kind = "raise"
  /\ outcome.kind = "raise"

Clamped(top) == IF top < 1 THEN 1 ELSE IF top > 20 THEN 20 ELSE top

\* C10: the index query issued by main_azure.py search or hybrid_search
\* carries top clamped to [1, 20] both as k_nearest_neighbors and as top.
C10_TopClamped ==
  IsAzureSearchOp
    => \A i \in 1..Len(trace) :
         trace[i].call = "search_client.search"
           => /\ trace[i].k = Clamped(op.top)
              /\ trace[i].top = Clamped(op.top)

C10_Witness ==
  /\ op.name = "az_search" /\ op.top = 0
  /\ Called(trace, "search_client.search")
  /\ trace[2].k = 1 /\ trace[2].top = 1
  /\ outcome.kind = "return" /\ Len(outcome.results) = 1

\* C11: the index query of main_azure.py hybrid_search carries the raw query
\* text and the query vector; the index query of main_azure.py search
\* carries the query vector and no query text.
C11_HybridCarriesTextAndVector ==
  \A i \in 1..Len(trace) :
    trace[i].call = "search_client.search"
      => /\ trace[i].vector = backend.emb.vector
         /\ op.name = "hybrid_search" => trace[i].text = op.query
         /\ op.name = "az_search" => trace[i].text = None

C11_Witness ==
  /\ op.name = "hybrid_search"
  /\ Len(trace) = 2 /\ trace[2].call = "search_client.search"
  /\ trace[2].text = op.query /\ trace[2].text # None
  /\ trace[2].vector = backend.emb.vector

\* C12: an empty id makes fetch of main.py and fetch of main_azure.py raise
\* "Document ID is required" before any oracle call, index call or local
\* lookup; an empty query makes every search handler return an empty result
\* list.
C12_EmptyIdFatalEmptyQueryNot ==
  /\ (op.name \in {"fetch", "az_fetch"} /\ op.id = <<>>)
       => /\ outcome = Raise("ValueError: Document ID is required", <<>>)
          /\ trace = <<>>
  /\ (IsSearchOp /\ op.query = <<>>)
       => /\ outcome = Return(<<>>)
          /\ trace = <<>>

C12_Witness ==
  /\ op.name = "az_fetch" /\ op.id = <<>>
  /\ search_client
  /\ outcome.kind = "raise" /\ trace = <<>>

\* the text field, or the content field of a record without a text field
TextElseContent(record) ==
  IF "text" \in DOMAIN record THEN record.text ELSE record.content

HasTextOrContent(record) ==
  "text" \in DOMAIN record \/ "content" \in DOMAIN record

\* C13: a fetch that succeeds through the local lookup of main.py or through
\* the index lookup of main_azure.py returns as text the whole text field of
\* the record when the record has one, and its whole content field otherwise.
C13_FetchTextIsTextElseContent ==
  /\ (op.name = "fetch" /\ outcome.kind = "return" /\ Called(trace, "LOOKUP"))
       => (HasTextOrContent(DictGet(LOOKUP, op.id))
             => outcome.doc.text = TextElseContent(DictGet(LOOKUP, op.id)))
  /\ (op.name = "az_fetch" /\ outcome.kind = "return")
       => (HasTextOrContent(backend.doc.doc)
             => outcome.doc.text = TextElseContent(backend.doc.doc))

\* the last position of RECORDS that holds the id
LastWithId(id) ==
  CHOOSE j \in 1..Len(RECORDS) :
    /\ RECORDS[j].id = id
    /\ \A n \in (j + 1)..Len(RECORDS) : RECORDS[n].id # id

LoadedJson ==
  /\ op.name = "load_sample_data"
  /\ backend.file.kind = "json"
  /\ \A i \in 1..Len(backend.file.records) : "id" \in DOMAIN backend.file.records[i]

\* C14: loading a records list, ids repeated or not, ends without an error;
\* RECORDS is the whole list in file order, and LOOKUP maps every id to the
\* last record of the list that carries it.
C14_LastOccurrenceWins ==
  LoadedJson
    => /\ outcome.kind = "return"
       /\ RECORDS = backend.file.records
       /\ \A i \in 1..Len(RECORDS) :
            /\ HasKey(LOOKUP, RECORDS[i].id)
            /\ DictGet(LOOKUP, RECORDS[i].id) = RECORDS[LastWithId(RECORDS[i].id)]

C14_Witness ==
  /\ LoadedJson
  /\ Len(RECORDS) = 2
  /\ RECORDS[1].id = RECORDS[2].id /\ RECORDS[1] # RECORDS[2]
  /\ Len(LOOKUP) = 1
  /\ DictGet(LOOKUP, RECORDS[1].id) = RECORDS[2]

LoadFailed ==
  /\ op.name = "load_sample_data"
  /\ \/ backend.file.kind \in {"missing", "unreadable"}
     \/ \E i \in 1..Len(backend.file.records) :
          "id" \notin DOMAIN backend.file.records[i]

\* C15: in every state a handler can run in, the keys of LOOKUP are exactly
\* the ids of RECORDS; after a load that failed (file missing, unreadable or
\* unparsable, a record without id) both are empty.
C15_StoreAndLookupConsistent ==
  /\ \A i \in 1..Len(RECORDS) :
       "id" \in DOMAIN RECORDS[i] /\ HasKey(LOOKUP, RECORDS[i].id)
  /\ \A i \in 1..Len(LOOKUP) :
       \E j \in 1..Len(RECORDS) : RECORDS[j].id = LOOKUP[i].k
  /\ LoadFailed => (RECORDS = <<>> /\ LOOKUP = <<>>)

C15_Witness ==
  /\ LoadFailed
  /\ backend.file.kind = "json" /\ Len(backend.file.records) = 2
  /\ RECORDS = <<>> /\ LOOKUP = <<>>

\* C16: fetch of main.py, given a non-empty id, calls the vector store only
\* when the id starts with "file-" and the client is configured; when the id
\* has no such prefix or a vector store call fails, fetch ends exactly as the
\* local lookup of the id ends: the projection of LOOKUP[id], or the
\* not-found error.
C16_OracleOnlyForNativeElseLocal ==
  (op.name = "fetch" /\ op.id # <<>>)
    => /\ Called(trace, "vector_stores.files.content")
            => (StartsWith(op.id, FilePrefix) /\ openai_client)
       /\ Called(trace, "vector_stores.files.retrieve")
            => (StartsWith(op.id, FilePrefix) /\ openai_client)
       /\ (\/ ~StartsWith(op.id, FilePrefix)
           \/ backend.fetch.content = "raise"
           \/ backend.fetch.retrieve = "raise")
            => outcome = LocalFetch(op.id, <<>>).outcome

C16_Witness ==
  /\ op.name = "fetch" /\ op.id = s_file1
  /\ openai_client
  /\ backend.fetch.content = "ok" /\ backend.fetch.retrieve = "raise"
  /\ IsKey(op.id)
  /\ outcome = ReturnDoc(LocalDocument(DictGet(LOOKUP, op.id)))

CallCount(name) == Cardinality({ i \in 1..Len(trace) : trace[i].call = name })

\* C17: one search of main.py calls the vector store at most once and runs
\* the keyword fallback at most once, the fallback only after the vector
\* store call failed or was skipped and after that call; what search then
\* returns is the fallback's outcome alone, and otherwise the mapped vector
\* store hits alone.
C17_OneAttemptEachNoMixing ==
  op.name = "search"
    => /\ CallCount("vector_stores.search") <= 1
       /\ CallCount("_fallback_local_search") <= 1
       /\ Called(trace, "_fallback_local_search")
            => /\ trace[Len(trace)].call = "_fallback_local_search"
               /\ \/ ~Called(trace, "vector_stores.search")
                  \/ VectorStoreTry(backend.search).raised
               /\ outcome = _fallback_local_search(op.query).outcome
       /\ (Called(trace, "vector_stores.search")
             /\ ~Called(trace, "_fallback_local_search"))
            => outcome = Return(VectorStoreTry(backend.search).results)

C17_Witness ==
  /\ op.name = "search"
  /\ backend.search.kind = "data" /\ Len(backend.search.data) = 2
  /\ text_content(backend.search.data[1]) # Number
  /\ text_content(backend.search.data[2]) = Number
  /\ Len(trace) = 2 /\ trace[2].call = "_fallback_local_search"
  /\ outcome.kind = "return" /\ outcome.results # <<>>
  /\ outcome = _fallback_local_search(op.query).outcome

\* C18: every main_azure.py search and hybrid_search whose index call
\* answered with hits returns one result per hit, whichever of the projected
\* fields of a hit are absent or null.
C18_MissingFieldsSubstituted ==
  (IsAzureSearchOp /\ backend.idx.kind = "hits")
    => /\ outcome.kind = "return"
       /\ Len(outcome.results) = Len(backend.idx.hits)

NoHits ==
  \/ backend.search.kind = "nodata"
  \/ backend.search.kind = "data" /\ backend.search.data = <<>>

\* C19: when the vector store call of main.py search succeeds without hits
\* (an empty data list, or a response without data), search returns an empty
\* result list and the keyword fallback is not run, whatever the store holds.
C19_EmptyOracleAnswerNoFallback ==
  (op.name = "search" /\ Called(trace, "vector_stores.search") /\ NoHits)
    => /\ outcome = Return(<<>>)
       /\ ~Called(trace, "_fallback_local_search")

C19_Witness ==
  /\ op.name = "search" /\ Called(trace, "vector_stores.search")
  /\ backend.search.kind = "data" /\ backend.search.data = <<>>
  /\ _fallback_local_search(op.query).outcome.kind = "return"
  /\ _fallback_local_search(op.query).outcome.results # <<>>
  /\ outcome = Return(<<>>)

====
